---- MODULE Spec2Model ----
(***************************************************************************)
(* pile: a catalog of projects (sqlite table `projects`) kept next to the  *)
(* project directories of a workspace.  Model of src/src/lib.rs.           *)
(*                                                                         *)
(* Strings are sequences of one-character strings, so that trim, replace,  *)
(* join and split are computed character by character.                     *)
(***************************************************************************)
EXTENDS Integers, Sequences, FiniteSets, TLC

(***************************************************************************)
(* Bounds of the model.                                                    *)
(***************************************************************************)
MaxOps == 3          \* command invocations, one after the other, in one behaviour
MaxSetupOps == 1     \* command invocations before two processes race
MaxTags == 2         \* tags in a tag list given to Add or Edit in SpecTags
MaxRows == 2         \* projects in the catalog that SpecQuery lists
MaxNameLen == 4      \* characters of a name given to the name cleaning alone

(***************************************************************************)
(* Strings.                                                                *)
(***************************************************************************)
\* char::is_whitespace, on the characters of the model
IsWhitespace(c) == c \in {" ", "\t"}

\* str::trim_start
RECURSIVE TrimStart(_)
TrimStart(s) ==
    IF s # <<>> /\ IsWhitespace(Head(s)) THEN TrimStart(Tail(s)) ELSE s

\* str::trim_end
RECURSIVE TrimEnd(_)
TrimEnd(s) ==
    IF s # <<>> /\ IsWhitespace(s[Len(s)]) THEN TrimEnd(SubSeq(s, 1, Len(s) - 1)) ELSE s

\* str::trim
Trim(s) == TrimEnd(TrimStart(s))

\* str::replace(from, to) for one-character patterns
Replace(s, from, to) == [i \in 1..Len(s) |-> IF s[i] = from THEN to ELSE s[i]]

\* mutant: the name trimmed, its inner blanks kept
CleanName_TrimOnly(name) == Trim(name)

\* name.trim().replace(" ", "-")
CleanName(name) == Replace(Trim(name), " ", "-")

\* [String]::join(",")
RECURSIVE Join(_)
Join(tags) ==
    IF tags = <<>> THEN <<>>
    ELSE IF Len(tags) = 1 THEN tags[1]
    ELSE tags[1] \o <<",">> \o Join(Tail(tags))

\* str::split(','): the segments between the commas, empty ones included
RECURSIVE Split(_)
Split(s) ==
    IF \A i \in 1..Len(s) : s[i] # ","
    THEN <<s>>
    ELSE LET k == CHOOSE i \in 1..Len(s) : s[i] = "," /\ \A j \in 1..(i - 1) : s[j] # ","
         IN  <<SubSeq(s, 1, k - 1)>> \o Split(SubSeq(s, k + 1, Len(s)))

\* .filter(|tag| tag != "")
FilterEmpty(tags) == SelectSeq(tags, LAMBDA t : t # <<>>)

\* tags_string.split(',').map(..).filter(|tag| tag != "").collect()
ParseTags(tagsString) == FilterEmpty(Split(tagsString))

(***************************************************************************)
(* Inputs.                                                                 *)
(***************************************************************************)
\* The names typed on the command line: empty, blank, plain, padded with
\* blanks, with an inner blank, both, and a second plain name.
RawNames ==
    {<<>>, <<" ">>, <<"a">>, <<" ", "a">>, <<"a", " ", "a">>,
     <<" ", "a", " ", "a", " ">>, <<"b">>}
\* names as typed: raw ones, and the cleaned form of a name typed earlier
InputNames == RawNames \cup {CleanName(r) : r \in RawNames}
\* The tag lists typed on the command line: none, one tag, an empty tag
\* before a tag.
TagLists == {<<>>, <<<<"x">>>>, <<<<>>, <<"x">>>>}

None == [some |-> FALSE, val |-> <<>>]
Some(v) == [some |-> TRUE, val |-> v]
Option(S) == {None} \cup {Some(v) : v \in S}

Workspace == "/w"
Platforms == {"unix", "windows"}
\* what `git clone <url> .` can do: git cannot be spawned, the clone fills the
\* directory, or git runs and exits with a failure
GitOutcomes == {"spawn_error", "cloned", "exit_failure"}

(***************************************************************************)
(* State.                                                                  *)
(***************************************************************************)
VARIABLES
    rows,       \* table projects, in rowid order: <<[name, tags]>>
    dirs,       \* directories under the workspace: name -> has entries
    platform,   \* the operating system the binary was built for
    nops,       \* invocations so far
    last,       \* the last invocation and its result
    pc,         \* racing processes: the statement each is about to run
    loc         \* racing processes: the locals of each, whether its INSERT was done, its result

vars == <<rows, dirs, platform, nops, last, pc, loc>>

Procs == {1, 2}

(***************************************************************************)
(* The error type and its conversions.                                     *)
(***************************************************************************)
Errors == {"ProjectNameTaken", "DirAlreadyExists", "IOError", "NotImplemented",
           "DatabaseError", "CouldNotGetProject", "ProjectDoesNotExist",
           "FailedToRemoveProject"}

\* mutant: the conversion without the AlreadyExists case
FromIoError_NoConflict(kind) == "IOError"

\* impl From<std::io::Error> for Errors, on the io::ErrorKind
FromIoError(kind) ==
    IF kind = "AlreadyExists" THEN "DirAlreadyExists" ELSE "IOError"

\* impl From<rusqlite::Error> for Errors
FromSqlError(e) == "DatabaseError"

(***************************************************************************)
(* The filesystem under the workspace.  The empty name is the workspace    *)
(* directory itself (PathBuf::push("") adds no component); it exists and   *)
(* holds pile.db once a connection was opened.                             *)
(***************************************************************************)
PathExists(ds, name) == name = <<>> \/ name \in DOMAIN ds

HasEntries(ds, name) == name = <<>> \/ (name \in DOMAIN ds /\ ds[name])

\* mutant: fs::create_dir_all, which accepts a directory that exists
FsCreateDir_All(ds, name) ==
    [err |-> "Ok",
     dirs |-> [n \in DOMAIN ds \cup ({name} \ {<<>>}) |-> IF n \in DOMAIN ds THEN ds[n] ELSE FALSE]]

\* fs::create_dir: mkdir, which fails when the path exists
FsCreateDir(ds, name) ==
    IF PathExists(ds, name)
    THEN [err |-> "AlreadyExists", dirs |-> ds]
    ELSE [err |-> "Ok", dirs |-> [n \in DOMAIN ds \cup {name} |-> IF n = name THEN FALSE ELSE ds[n]]]

\* fs::rename of a directory.  rename(2) replaces an empty directory and
\* refuses a directory with entries; MoveFileExW refuses any existing directory.
FsRename(ds, plat, from, to) ==
    IF ~PathExists(ds, from) THEN [err |-> "NotFound", dirs |-> ds]
    ELSE IF from = to THEN [err |-> "Ok", dirs |-> ds]
    ELSE IF from = <<>> THEN [err |-> "InvalidInput", dirs |-> ds]
    ELSE IF HasEntries(ds, to) THEN [err |-> "DirectoryNotEmpty", dirs |-> ds]
    ELSE IF PathExists(ds, to) /\ plat = "windows" THEN [err |-> "PermissionDenied", dirs |-> ds]
    ELSE [err |-> "Ok",
          dirs |-> [n \in (DOMAIN ds \ {from}) \cup {to} |-> IF n = to THEN ds[from] ELSE ds[n]]]

\* fs::File::create + write_all of <name>/README.md
FsWriteReadme(ds, name) ==
    IF ~PathExists(ds, name) THEN [err |-> "NotFound", dirs |-> ds]
    ELSE IF name = <<>> THEN [err |-> "Ok", dirs |-> ds]
    ELSE [err |-> "Ok", dirs |-> [ds EXCEPT ![name] = TRUE]]

\* Command::new("git").current_dir(<name>).args(["clone", url, "."]).output()
\* An Err is a failure to spawn; git's own exit status is not looked at.
\* git clones only into a directory without entries.
GitClone(ds, name, git) ==
    IF ~PathExists(ds, name) \/ git = "spawn_error" THEN [err |-> "NotFound", dirs |-> ds]
    ELSE IF git = "cloned" /\ ~HasEntries(ds, name)
         THEN [err |-> "Ok", dirs |-> [ds EXCEPT ![name] = TRUE]]
    ELSE [err |-> "Ok", dirs |-> ds]

(***************************************************************************)
(* The table projects (id integer primary key, name text not null unique,  *)
(* tags text).                                                             *)
(***************************************************************************)
\* the constraint `name text not null unique` of get_connection
UniqueNames(rs) == \A i, j \in DOMAIN rs : rs[i].name = rs[j].name => i = j

\* INSERT INTO projects (name, tags) VALUES (?1, ?2)
SqlInsert(rs, name, tags) ==
    LET new == Append(rs, [name |-> name, tags |-> tags])
    IN  IF UniqueNames(new) THEN [ok |-> TRUE, rows |-> new] ELSE [ok |-> FALSE, rows |-> rs]

\* mutant: the UPDATE of a table whose name column is not unique
SqlUpdateName_NotUnique(rs, new, old) ==
    [ok |-> TRUE,
     rows |-> [i \in DOMAIN rs |-> IF rs[i].name = old THEN [rs[i] EXCEPT !.name = new] ELSE rs[i]]]

\* UPDATE projects SET name = ?1 WHERE name = ?2
SqlUpdateName(rs, new, old) ==
    LET upd == [i \in DOMAIN rs |-> IF rs[i].name = old THEN [rs[i] EXCEPT !.name = new] ELSE rs[i]]
    IN  IF UniqueNames(upd) THEN [ok |-> TRUE, rows |-> upd] ELSE [ok |-> FALSE, rows |-> rs]

\* UPDATE projects SET tags = ?1 WHERE name = ?2
SqlUpdateTags(rs, tags, name) ==
    [ok |-> TRUE,
     rows |-> [i \in DOMAIN rs |-> IF rs[i].name = name THEN [rs[i] EXCEPT !.tags = tags] ELSE rs[i]]]

\* mutant: the DELETE without its WHERE clause
SqlDelete_All(rs, name) == <<>>

\* DELETE FROM projects WHERE name = ?1
SqlDelete(rs, name) == SelectSeq(rs, LAMBDA r : r.name # name)

(***************************************************************************)
(* impl Project                                                            *)
(***************************************************************************)
\* mutant: Project::new keeping the name as typed
ProjectNew_Raw(name, tags) == [name |-> name, tags |-> tags]

\* Project::new
ProjectNew(name, tags) == [name |-> CleanName(name), tags |-> tags]

\* Project::get_path
get_path(project) == [root |-> Workspace, name |-> project.name]

\* Project::name_taken
name_taken(name, rs) == \E i \in DOMAIN rs : rs[i].name = name

\* Project::get_from_db_by_name: the first row with the name
get_from_db_by_name(name, rs) ==
    IF name_taken(name, rs)
    THEN LET k == CHOOSE i \in DOMAIN rs : rs[i].name = name /\ \A j \in 1..(i - 1) : rs[j].name # name
         IN  [result |-> "Ok", project |-> [name |-> name, tags |-> ParseTags(rs[k].tags)]]
    ELSE [result |-> "CouldNotGetProject", project |-> [name |-> name, tags |-> <<>>]]

\* Project::remove_from_db_by_name
remove_from_db_by_name(name, rs) == [result |-> "Ok", rows |-> SqlDelete(rs, name)]

\* Project::create_directory
create_directory(project, ds) == FsCreateDir(ds, project.name)

\* Project::add_to_db
add_to_db(project, rs) == SqlInsert(rs, project.name, Join(project.tags))

\* mutant: edit_name storing the new name as typed
edit_name_Raw(project, new_name, rs, ds, plat) ==
    LET upd == SqlUpdateName(rs, new_name, project.name)
        ren == FsRename(ds, plat, project.name, new_name)
    IN  IF ~upd.ok
        THEN [result |-> FromSqlError("constraint"), rows |-> rs, dirs |-> ds, project |-> project]
        ELSE IF ren.err # "Ok"
        THEN [result |-> FromIoError(ren.err), rows |-> upd.rows, dirs |-> ds, project |-> project]
        ELSE [result |-> "Ok", rows |-> upd.rows, dirs |-> ren.dirs,
              project |-> [project EXCEPT !.name = new_name]]

\* mutant: edit_name renaming the directory before the UPDATE
edit_name_RenameFirst(project, new_name, rs, ds, plat) ==
    LET cleaned_name == CleanName(new_name)
        ren == FsRename(ds, plat, project.name, cleaned_name)
        upd == SqlUpdateName(rs, cleaned_name, project.name)
    IN  IF ren.err # "Ok"
        THEN [result |-> FromIoError(ren.err), rows |-> rs, dirs |-> ds, project |-> project]
        ELSE IF ~upd.ok
        THEN [result |-> FromSqlError("constraint"), rows |-> rs, dirs |-> ren.dirs, project |-> project]
        ELSE [result |-> "Ok", rows |-> upd.rows, dirs |-> ren.dirs,
              project |-> [project EXCEPT !.name = cleaned_name]]

\* Project::edit_name: UPDATE, then fs::rename, then self.name
edit_name(project, new_name, rs, ds, plat) ==
    LET cleaned_name == CleanName(new_name)
        upd == SqlUpdateName(rs, cleaned_name, project.name)
        ren == FsRename(ds, plat, project.name, cleaned_name)
    IN  IF ~upd.ok
        THEN [result |-> FromSqlError("constraint"), rows |-> rs, dirs |-> ds, project |-> project]
        ELSE IF ren.err # "Ok"
        THEN [result |-> FromIoError(ren.err), rows |-> upd.rows, dirs |-> ds, project |-> project]
        ELSE [result |-> "Ok", rows |-> upd.rows, dirs |-> ren.dirs,
              project |-> [project EXCEPT !.name = cleaned_name]]

\* Project::edit_tags
edit_tags(project, new_tags, rs) ==
    LET upd == SqlUpdateTags(rs, Join(new_tags), project.name)
    IN  [result |-> "Ok", rows |-> upd.rows, project |-> [project EXCEPT !.tags = new_tags]]

(***************************************************************************)
(* The commands.  Each takes the table and the directories and gives the   *)
(* Result with the table and the directories it leaves behind.             *)
(***************************************************************************)
\* mutant: add_project without the name_taken check
add_project_NoNameCheck(name, tags, clone, readme, git, rs, ds) ==
    LET project == ProjectNew(name, tags)
        mk == create_directory(project, ds)
        ins == add_to_db(project, rs)
    IN  IF mk.err # "Ok"
        THEN [result |-> FromIoError(mk.err), rows |-> rs, dirs |-> ds]
        ELSE IF ~ins.ok
        THEN [result |-> FromSqlError("constraint"), rows |-> rs, dirs |-> mk.dirs]
        ELSE [result |-> "Ok", rows |-> ins.rows, dirs |-> mk.dirs]

\* mutant: add_project inserting the row after the readme and the clone
add_project_RowLast(name, tags, clone, readme, git, rs, ds) ==
    LET project == ProjectNew(name, tags)
        mk == create_directory(project, ds)
        ins == add_to_db(project, rs)
        rd == IF readme THEN FsWriteReadme(mk.dirs, project.name) ELSE [err |-> "Ok", dirs |-> mk.dirs]
        cl == IF clone.some THEN GitClone(rd.dirs, project.name, git) ELSE [err |-> "Ok", dirs |-> rd.dirs]
    IN  IF name_taken(project.name, rs)
        THEN [result |-> "ProjectNameTaken", rows |-> rs, dirs |-> ds]
        ELSE IF mk.err # "Ok"
        THEN [result |-> FromIoError(mk.err), rows |-> rs, dirs |-> ds]
        ELSE IF rd.err # "Ok"
        THEN [result |-> FromIoError(rd.err), rows |-> rs, dirs |-> mk.dirs]
        ELSE IF cl.err # "Ok"
        THEN [result |-> FromIoError(cl.err), rows |-> rs, dirs |-> rd.dirs]
        ELSE IF ~ins.ok
        THEN [result |-> FromSqlError("constraint"), rows |-> rs, dirs |-> cl.dirs]
        ELSE [result |-> "Ok", rows |-> ins.rows, dirs |-> cl.dirs]

\* add_project
add_project(name, tags, clone, readme, git, rs, ds) ==
    LET project == ProjectNew(name, tags)
        mk == create_directory(project, ds)
        ins == add_to_db(project, rs)
        rd == IF readme THEN FsWriteReadme(mk.dirs, project.name) ELSE [err |-> "Ok", dirs |-> mk.dirs]
        cl == IF clone.some THEN GitClone(rd.dirs, project.name, git) ELSE [err |-> "Ok", dirs |-> rd.dirs]
    IN  IF name_taken(project.name, rs)
        THEN [result |-> "ProjectNameTaken", rows |-> rs, dirs |-> ds]
        ELSE IF mk.err # "Ok"
        THEN [result |-> FromIoError(mk.err), rows |-> rs, dirs |-> ds]
        ELSE IF ~ins.ok
        THEN [result |-> FromSqlError("constraint"), rows |-> rs, dirs |-> mk.dirs]
        ELSE IF rd.err # "Ok"
        THEN [result |-> FromIoError(rd.err), rows |-> ins.rows, dirs |-> mk.dirs]
        ELSE IF cl.err # "Ok"
        THEN [result |-> FromIoError(cl.err), rows |-> ins.rows, dirs |-> rd.dirs]
        ELSE [result |-> "Ok", rows |-> ins.rows, dirs |-> cl.dirs]

\* mutant: remove_project removing the directory of the project as well
remove_project_WithDirectory(name, rs, ds) ==
    IF ~name_taken(name, rs)
    THEN [result |-> "ProjectDoesNotExist", rows |-> rs, dirs |-> ds]
    ELSE [result |-> remove_from_db_by_name(name, rs).result,
          rows |-> remove_from_db_by_name(name, rs).rows,
          dirs |-> [n \in DOMAIN ds \ {name} |-> ds[n]]]

\* remove_project
remove_project(name, rs, ds) ==
    IF ~name_taken(name, rs)
    THEN [result |-> "ProjectDoesNotExist", rows |-> rs, dirs |-> ds]
    ELSE [result |-> remove_from_db_by_name(name, rs).result,
          rows |-> remove_from_db_by_name(name, rs).rows, dirs |-> ds]

\* get_project_path
get_project_path(name, rs) ==
    LET got == get_from_db_by_name(name, rs)
    IN  IF got.result # "Ok"
        THEN [result |-> got.result, path |-> [root |-> Workspace, name |-> <<>>]]
        ELSE [result |-> "Ok", path |-> get_path(got.project)]

\* mutant: edit updating the tags of the project as it was loaded
edit_StaleProject(name, new_name, new_tags, rs, ds, plat) ==
    LET got == get_from_db_by_name(name, rs)
        en == IF new_name.some
              THEN edit_name(got.project, new_name.val, rs, ds, plat)
              ELSE [result |-> "Ok", rows |-> rs, dirs |-> ds, project |-> got.project]
        et == IF new_tags.some
              THEN edit_tags(got.project, new_tags.val, en.rows)
              ELSE [result |-> "Ok", rows |-> en.rows, project |-> en.project]
    IN  IF got.result # "Ok"
        THEN [result |-> got.result, rows |-> rs, dirs |-> ds, project |-> got.project]
        ELSE IF en.result # "Ok"
        THEN [result |-> en.result, rows |-> en.rows, dirs |-> en.dirs, project |-> en.project]
        ELSE [result |-> et.result, rows |-> et.rows, dirs |-> en.dirs, project |-> et.project]

\* edit
edit(name, new_name, new_tags, rs, ds, plat) ==
    LET got == get_from_db_by_name(name, rs)
        en == IF new_name.some
              THEN edit_name(got.project, new_name.val, rs, ds, plat)
              ELSE [result |-> "Ok", rows |-> rs, dirs |-> ds, project |-> got.project]
        et == IF new_tags.some
              THEN edit_tags(en.project, new_tags.val, en.rows)
              ELSE [result |-> "Ok", rows |-> en.rows, project |-> en.project]
    IN  IF got.result # "Ok"
        THEN [result |-> got.result, rows |-> rs, dirs |-> ds, project |-> got.project]
        ELSE IF en.result # "Ok"
        THEN [result |-> en.result, rows |-> en.rows, dirs |-> en.dirs, project |-> en.project]
        ELSE [result |-> et.result, rows |-> et.rows, dirs |-> en.dirs, project |-> et.project]

(***************************************************************************)
(* Project::fetch_from_db: SELECT tags, name FROM projects [WHERE name     *)
(* LIKE ?1] [AND tags LIKE ?2] ORDER BY name COLLATE NOCASE ASC.           *)
(***************************************************************************)
\* the characters of the model in the order of their ASCII codes
Ascii == <<"\t", " ", "%", ",", "-", "A", "B", "X", "_", "a", "b", "x", "y">>

CharCode(c) == CHOOSE i \in DOMAIN Ascii : Ascii[i] = c

\* sqlite folds the upper case ASCII letters to lower case, in LIKE and in
\* the collation NOCASE
ToLower(c) ==
    CASE c = "A" -> "a"
      [] c = "B" -> "b"
      [] c = "X" -> "x"
      [] OTHER -> c

\* the order of byte strings, a proper prefix first
RECURSIVE LexLeq(_, _)
LexLeq(a, b) ==
    IF a = <<>> THEN TRUE
    ELSE IF b = <<>> THEN FALSE
    ELSE IF Head(a) # Head(b) THEN CharCode(Head(a)) < CharCode(Head(b))
    ELSE LexLeq(Tail(a), Tail(b))

\* mutant: the names ordered as byte strings
NoCaseLeq_Binary(a, b) == LexLeq(a, b)

\* COLLATE NOCASE: the bytes are compared after folding, then the lengths
RECURSIVE NoCaseLeq(_, _)
NoCaseLeq(a, b) ==
    IF a = <<>> THEN TRUE
    ELSE IF b = <<>> THEN FALSE
    ELSE IF ToLower(Head(a)) # ToLower(Head(b))
    THEN CharCode(ToLower(Head(a))) < CharCode(ToLower(Head(b)))
    ELSE NoCaseLeq(Tail(a), Tail(b))

\* mutant: the pattern that matches at the start only
LikePattern_Prefix(query) == query \o <<"%">>

\* format!("%{}%", query)
LikePattern(query) == <<"%">> \o query \o <<"%">>

\* text LIKE pattern: % matches any run of characters, _ any one character,
\* every other character itself without regard to ASCII case
RECURSIVE Like(_, _)
Like(text, pattern) ==
    IF pattern = <<>> THEN text = <<>>
    ELSE IF Head(pattern) = "%"
    THEN Like(text, Tail(pattern)) \/ (text # <<>> /\ Like(Tail(text), pattern))
    ELSE /\ text # <<>>
         /\ Head(pattern) = "_" \/ ToLower(Head(pattern)) = ToLower(Head(text))
         /\ Like(Tail(text), Tail(pattern))

\* the rows the WHERE clause of the FilterBy variant keeps, in rowid order
Selected(name_query, tag_query, rs) ==
    SelectSeq(rs, LAMBDA r :
        /\ name_query.some => Like(r.name, LikePattern(name_query.val))
        /\ tag_query.some => Like(r.tags, LikePattern(tag_query.val)))

\* from_row_to_project
from_row_to_project(row) == [name |-> row.name, tags |-> ParseTags(row.tags)]

\* Project::fetch_from_db: the results it can give.  ORDER BY leaves the
\* order of rows whose names are equal under NOCASE to the query planner.
fetch_from_db(name_query, tag_query, rs) ==
    LET sel == Selected(name_query, tag_query, rs)
        n == Len(sel)
        orders == {f \in [1..n -> 1..n] :
                      /\ \A i \in 1..n : \A j \in 1..n : f[i] = f[j] => i = j
                      /\ \A i \in 1..n : \A j \in (i + 1)..n :
                             NoCaseLeq(sel[f[i]].name, sel[f[j]].name)}
    IN  {[result |-> "Ok", projects |-> [i \in 1..n |-> from_row_to_project(sel[f[i]])]] :
            f \in orders}

(***************************************************************************)
(* One invocation of the binary after the other.                           *)
(***************************************************************************)
NoLocals == [op |-> "none", name |-> <<>>, new |-> <<>>, inserted |-> FALSE, result |-> "none"]
NoCall == [op |-> "none", name |-> <<>>, new_name |-> None, result |-> "Ok"]

Init ==
    /\ rows = <<>>
    /\ dirs = <<>>
    /\ platform \in Platforms
    /\ nops = 0
    /\ last = NoCall
    /\ pc = [p \in Procs |-> "idle"]
    /\ loc = [p \in Procs |-> NoLocals]

Add(name, tags, clone, readme, git) ==
    LET r == add_project(name, tags, clone, readme, git, rows, dirs)
    IN  /\ nops < MaxOps
        /\ rows' = r.rows
        /\ dirs' = r.dirs
        /\ nops' = nops + 1
        /\ last' = [op |-> "add", name |-> name, new_name |-> None, result |-> r.result]
        /\ UNCHANGED <<platform, pc, loc>>

Remove(name) ==
    LET r == remove_project(name, rows, dirs)
    IN  /\ nops < MaxOps
        /\ rows' = r.rows
        /\ dirs' = r.dirs
        /\ nops' = nops + 1
        /\ last' = [op |-> "remove", name |-> name, new_name |-> None, result |-> r.result]
        /\ UNCHANGED <<platform, pc, loc>>

Edit(name, new_name, new_tags) ==
    LET r == edit(name, new_name, new_tags, rows, dirs, platform)
    IN  /\ nops < MaxOps
        /\ rows' = r.rows
        /\ dirs' = r.dirs
        /\ nops' = nops + 1
        /\ last' = [op |-> "edit", name |-> name, new_name |-> new_name, result |-> r.result]
        /\ UNCHANGED <<platform, pc, loc>>

Path(name) ==
    LET r == get_project_path(name, rows)
    IN  /\ nops < MaxOps
        /\ nops' = nops + 1
        /\ last' = [op |-> "path", name |-> name, new_name |-> None, result |-> r.result]
        /\ UNCHANGED <<rows, dirs, platform, pc, loc>>

\* The arguments an invocation reads.  add_project returns before it looks at
\* the tags, the readme flag or the clone url when the name is taken or the
\* directory exists, and edit returns before it looks at the new name or the
\* new tags when the project is not found: one value stands for all there.
AddReadsOptions(name) ==
    ~name_taken(CleanName(name), rows) /\ ~PathExists(dirs, CleanName(name))

AddTags(name) == IF AddReadsOptions(name) THEN TagLists ELSE {<<>>}
AddClone(name) == IF AddReadsOptions(name) THEN Option({"url"}) ELSE {None}
AddReadme(name) == IF AddReadsOptions(name) THEN BOOLEAN ELSE {FALSE}
AddGit(clone) == IF clone.some THEN GitOutcomes ELSE {"exit_failure"}
EditNewName(name) == IF name_taken(name, rows) THEN Option(RawNames) ELSE {None}
EditNewTags(name) == IF name_taken(name, rows) THEN Option(TagLists) ELSE {None}

AddCmd ==
    \E name \in RawNames :
    \E tags \in AddTags(name), clone \in AddClone(name), readme \in AddReadme(name) :
    \E git \in AddGit(clone) :
        Add(name, tags, clone, readme, git)

RemoveCmd == \E name \in InputNames : Remove(name)

EditCmd ==
    \E name \in InputNames :
    \E new_name \in EditNewName(name), new_tags \in EditNewTags(name) :
        Edit(name, new_name, new_tags)

PathCmd == \E name \in InputNames : Path(name)

Next == AddCmd \/ RemoveCmd \/ EditCmd \/ PathCmd

Spec == Init /\ [][Next]_vars

(***************************************************************************)
(* Two invocations of the binary at once: two processes on one workspace,  *)
(* each running one add_project or edit statement by statement.  A        *)
(* statement that touches the table or the filesystem is one step; an     *)
(* argument is chosen at the step that first reads it.  nops and last      *)
(* describe the commands run one after the other and are reset when the    *)
(* first process starts.                                                   *)
(***************************************************************************)
AllIdle == \A p \in Procs : pc[p] = "idle"

Goto(p, label) == pc' = [pc EXCEPT ![p] = label]

Return(p, result) ==
    /\ pc' = [pc EXCEPT ![p] = "done"]
    /\ loc' = [loc EXCEPT ![p].result = result]

\* the commands run before the race starts
Setup == AllIdle /\ nops < MaxSetupOps /\ Next

\* add_project: Project::new and the name_taken check
AddNameTaken(p, name) ==
    /\ pc[p] = "idle"
    /\ IF name_taken(CleanName(name), rows)
       THEN /\ pc' = [pc EXCEPT ![p] = "done"]
            /\ loc' = [loc EXCEPT ![p] = [op |-> "add", name |-> CleanName(name), new |-> <<>>, inserted |-> FALSE,
                                          result |-> "ProjectNameTaken"]]
       ELSE /\ Goto(p, "create_directory")
            /\ loc' = [loc EXCEPT ![p] = [op |-> "add", name |-> CleanName(name), new |-> <<>>, inserted |-> FALSE,
                                          result |-> "none"]]
    /\ nops' = 0 /\ last' = NoCall
    /\ UNCHANGED <<rows, dirs, platform>>

\* add_project: project.create_directory(&workspace)?
AddCreateDirectory(p) ==
    LET mk == FsCreateDir(dirs, loc[p].name)
    IN  /\ pc[p] = "create_directory"
        /\ dirs' = mk.dirs
        /\ IF mk.err # "Ok"
           THEN Return(p, FromIoError(mk.err))
           ELSE Goto(p, "add_to_db") /\ UNCHANGED loc
        /\ UNCHANGED <<rows, platform, nops, last>>

\* add_project: project.add_to_db(&conn)?
AddToDb(p, tags) ==
    LET ins == SqlInsert(rows, loc[p].name, Join(tags))
    IN  /\ pc[p] = "add_to_db"
        /\ rows' = ins.rows
        /\ IF ~ins.ok
           THEN Return(p, FromSqlError("constraint"))
           ELSE Goto(p, "readme") /\ loc' = [loc EXCEPT ![p].inserted = TRUE]
        /\ UNCHANGED <<dirs, platform, nops, last>>

\* add_project: if readme { File::create(..)?; write_all(..)? }
AddWriteReadme(p, readme) ==
    LET rd == IF readme THEN FsWriteReadme(dirs, loc[p].name) ELSE [err |-> "Ok", dirs |-> dirs]
    IN  /\ pc[p] = "readme"
        /\ dirs' = rd.dirs
        /\ IF rd.err # "Ok"
           THEN Return(p, FromIoError(rd.err))
           ELSE Goto(p, "clone") /\ UNCHANGED loc
        /\ UNCHANGED <<rows, platform, nops, last>>

\* add_project: if let Some(clone_url) = clone { Command::new("git")..output()? }
AddGitClone(p, clone, git) ==
    LET cl == IF clone.some THEN GitClone(dirs, loc[p].name, git) ELSE [err |-> "Ok", dirs |-> dirs]
    IN  /\ pc[p] = "clone"
        /\ dirs' = cl.dirs
        /\ Return(p, IF cl.err # "Ok" THEN FromIoError(cl.err) ELSE "Ok")
        /\ UNCHANGED <<rows, platform, nops, last>>

\* edit: Project::get_from_db_by_name(&name, &conn)?
EditGetFromDb(p, name) ==
    /\ pc[p] = "idle"
    /\ IF get_from_db_by_name(name, rows).result # "Ok"
       THEN /\ pc' = [pc EXCEPT ![p] = "done"]
            /\ loc' = [loc EXCEPT ![p] = [op |-> "edit", name |-> name, new |-> <<>>, inserted |-> FALSE,
                                          result |-> get_from_db_by_name(name, rows).result]]
       ELSE /\ Goto(p, "update_name")
            /\ loc' = [loc EXCEPT ![p] = [op |-> "edit", name |-> name, new |-> <<>>, inserted |-> FALSE,
                                          result |-> "none"]]
    /\ nops' = 0 /\ last' = NoCall
    /\ UNCHANGED <<rows, dirs, platform>>

\* edit_name: the UPDATE of the name, when a new name is given
EditUpdateName(p, new_name) ==
    LET cleaned_name == CleanName(new_name.val)
        upd == SqlUpdateName(rows, cleaned_name, loc[p].name)
    IN  /\ pc[p] = "update_name"
        /\ IF ~new_name.some
           THEN Goto(p, "update_tags") /\ UNCHANGED <<rows, loc>>
           ELSE IF ~upd.ok
           THEN Return(p, FromSqlError("constraint")) /\ UNCHANGED rows
           ELSE /\ rows' = upd.rows
                /\ Goto(p, "rename")
                /\ loc' = [loc EXCEPT ![p].new = cleaned_name]
        /\ UNCHANGED <<dirs, platform, nops, last>>

\* edit_name: fs::rename(self.get_path(..), &new_path)? and self.name = cleaned_name
EditRename(p) ==
    LET ren == FsRename(dirs, platform, loc[p].name, loc[p].new)
    IN  /\ pc[p] = "rename"
        /\ dirs' = ren.dirs
        /\ IF ren.err # "Ok"
           THEN Return(p, FromIoError(ren.err))
           ELSE Goto(p, "update_tags") /\ loc' = [loc EXCEPT ![p].name = loc[p].new]
        /\ UNCHANGED <<rows, platform, nops, last>>

\* edit: project.edit_tags(&tags, &conn)?, when new tags are given
EditUpdateTags(p, new_tags) ==
    /\ pc[p] = "update_tags"
    /\ rows' = IF new_tags.some THEN SqlUpdateTags(rows, Join(new_tags.val), loc[p].name).rows
               ELSE rows
    /\ Return(p, "Ok")
    /\ UNCHANGED <<dirs, platform, nops, last>>

AddStep(p) ==
    \/ \E name \in RawNames : AddNameTaken(p, name)
    \/ AddCreateDirectory(p)
    \/ \E tags \in TagLists : AddToDb(p, tags)
    \/ \E readme \in BOOLEAN : AddWriteReadme(p, readme)
    \/ \E clone \in Option({"url"}) : \E git \in AddGit(clone) : AddGitClone(p, clone, git)

EditStep(p) ==
    \/ \E name \in InputNames : EditGetFromDb(p, name)
    \/ \E new_name \in Option(RawNames) : EditUpdateName(p, new_name)
    \/ EditRename(p)
    \/ \E new_tags \in Option(TagLists) : EditUpdateTags(p, new_tags)

NextRace ==
    \/ Setup
    \/ \E p \in Procs : AddStep(p) \/ EditStep(p)

SpecRace == Init /\ [][NextRace]_vars

(***************************************************************************)
(* Properties of the commands run one after the other (Spec).              *)
(***************************************************************************)
\* a step of Spec is one invocation, described by last'
Invoked(op) == nops' = nops + 1 /\ last'.op = op

\* the table without its row number i
WithoutRow(rs, i) == SubSeq(rs, 1, i - 1) \o SubSeq(rs, i + 1, Len(rs))

\* C1: every catalog row named n has a directory at workspace_root/n, in
\* every state reached by Add, Edit and Remove invocations, failed ones included.
C1_RowHasDirectory ==
    \A i \in DOMAIN rows : PathExists(dirs, rows[i].name)

\* C2: when the directory rename of an Edit fails after the UPDATE of the
\* name succeeded (the only io error of edit), the catalog still holds the
\* row under the old name and no row under the new name.
C2_RenameFailureReverted ==
    (last.op = "edit" /\ last.new_name.some /\ last.result \in {"IOError", "DirAlreadyExists"})
        => /\ name_taken(last.name, rows)
           /\ CleanName(last.new_name.val) # last.name
                  => ~name_taken(CleanName(last.new_name.val), rows)

\* C3: Add of a name whose cleaned form is in the catalog fails with
\* ProjectNameTaken and changes neither the rows nor the directories.
C3_AddNameTaken ==
    [][(Invoked("add") /\ name_taken(CleanName(last'.name), rows))
           => (last'.result = "ProjectNameTaken" /\ rows' = rows /\ dirs' = dirs)]_vars

C3_Witness ==
    /\ last.op = "add" /\ last.result = "ProjectNameTaken"
    /\ name_taken(CleanName(last.name), rows)
    /\ CleanName(last.name) # last.name

\* C4: Add of a name that is not in the catalog but whose path exists on
\* disk fails with DirAlreadyExists and leaves the rows unchanged.
C4_AddDirectoryConflict ==
    [][(/\ Invoked("add")
        /\ ~name_taken(CleanName(last'.name), rows)
        /\ PathExists(dirs, CleanName(last'.name)))
           => (last'.result = "DirAlreadyExists" /\ rows' = rows)]_vars

C4_Witness ==
    /\ last.op = "add" /\ last.result = "DirAlreadyExists"
    /\ CleanName(last.name) \in DOMAIN dirs
    /\ ~name_taken(CleanName(last.name), rows)

\* C7: no two catalog rows have the same name.
C7_NamesUnique ==
    \A i \in DOMAIN rows : \A j \in DOMAIN rows : i # j => rows[i].name # rows[j].name

\* an Edit asked for the name of another project, and both rows are there
C7_Witness ==
    /\ last.op = "edit" /\ last.new_name.some /\ last.result = "DatabaseError"
    /\ name_taken(last.name, rows)
    /\ name_taken(CleanName(last.new_name.val), rows)
    /\ CleanName(last.new_name.val) # last.name

\* C8: every name stored in the catalog is non-empty, has no leading or
\* trailing whitespace and contains no space character.
C8_StoredNamesClean ==
    \A i \in DOMAIN rows :
        LET n == rows[i].name
        IN  /\ n # <<>>
            /\ ~IsWhitespace(n[1]) /\ ~IsWhitespace(n[Len(n)])
            /\ \A k \in 1..Len(n) : n[k] # " "

\* C9: Remove of a name in the catalog deletes that row and nothing else:
\* the other rows and every directory stay, and a Resolve of the name then
\* fails as not found.
C9_RemoveFrame ==
    [][(Invoked("remove") /\ name_taken(last'.name, rows))
           => /\ last'.result = "Ok"
              /\ \E i \in DOMAIN rows : rows[i].name = last'.name /\ rows' = WithoutRow(rows, i)
              /\ dirs' = dirs
              /\ get_project_path(last'.name, rows').result = "CouldNotGetProject"]_vars

C9_Witness ==
    /\ last.op = "remove" /\ last.result = "Ok"
    /\ last.name \in DOMAIN dirs
    /\ rows # <<>>

\* C10: a successful Edit of project old with the raw new name r stores
\* CleanName(r) in the row and moves the directory of old to CleanName(r);
\* Resolve of CleanName(r) then gives that path and, when the name changed,
\* Resolve of old fails as not found.
C10_EditName ==
    [][(Invoked("edit") /\ last'.new_name.some /\ last'.result = "Ok")
           => LET old == last'.name
                  new == CleanName(last'.new_name.val)
              IN  /\ Len(rows') = Len(rows)
                  /\ \A i \in DOMAIN rows :
                         rows'[i].name = IF rows[i].name = old THEN new ELSE rows[i].name
                  /\ name_taken(old, rows)
                  /\ get_project_path(new, rows') =
                         [result |-> "Ok", path |-> [root |-> Workspace, name |-> new]]
                  /\ PathExists(dirs', new)
                  /\ new # old
                         => /\ get_project_path(old, rows').result = "CouldNotGetProject"
                            /\ old \in DOMAIN dirs /\ old \notin DOMAIN dirs'
                            /\ DOMAIN dirs' = (DOMAIN dirs \ {old}) \cup {new}
                            /\ dirs'[new] = dirs[old]
                            /\ \A n \in DOMAIN dirs' \ {new} : dirs'[n] = dirs[n]]_vars

\* a rename whose new name had to be cleaned of an inner blank
C10_Witness ==
    /\ last.op = "edit" /\ last.new_name.some /\ last.result = "Ok"
    /\ CleanName(last.new_name.val) # last.name
    /\ CleanName(last.new_name.val) # last.new_name.val
    /\ \E k \in DOMAIN CleanName(last.new_name.val) : CleanName(last.new_name.val)[k] = "-"
    /\ name_taken(CleanName(last.new_name.val), rows)
    /\ CleanName(last.new_name.val) \in DOMAIN dirs

\* Resolve of the name gives <workspace>/<name> and that directory exists
Resolves(n, rs, ds) ==
    /\ get_project_path(n, rs) = [result |-> "Ok", path |-> [root |-> Workspace, name |-> n]]
    /\ PathExists(ds, n)

\* the step removes the project n or edits its name
RemovesOrRenames(n) ==
    \/ Invoked("remove") /\ last'.name = n
    \/ Invoked("edit") /\ last'.name = n /\ last'.new_name.some

\* C11: a successful Add of the raw name r creates the directory
\* <workspace>/CleanName(r), Resolve of CleanName(r) gives that path, and
\* every later step that neither removes the project nor edits its name
\* leaves both so.
C11_ResolveAfterAdd ==
    [][/\ (Invoked("add") /\ last'.result = "Ok")
            => LET n == CleanName(last'.name)
               IN  /\ ~PathExists(dirs, n) /\ ~name_taken(n, rows)
                   /\ Resolves(n, rows', dirs')
       /\ \A n \in InputNames :
              (Resolves(n, rows, dirs) /\ ~RemovesOrRenames(n)) => Resolves(n, rows', dirs')]_vars

\* two steps after the Add of "a a", the project still resolves
C11_Witness ==
    /\ nops = 3
    /\ last.op = "edit" /\ ~last.new_name.some /\ last.name = <<"a", "-", "a">>
    /\ Resolves(<<"a", "-", "a">>, rows, dirs)
    /\ Resolves(<<"b">>, rows, dirs)

\* C12 as claimed: Remove, Resolve and Edit clean the name they are given
\* before the lookup, so that each of them, given a raw name r, finds the
\* project stored under CleanName(r).
C12_LookupsCleanName ==
    [][((Invoked("remove") \/ Invoked("path") \/ Invoked("edit"))
            /\ name_taken(CleanName(last'.name), rows))
           => last'.result \notin {"ProjectDoesNotExist", "CouldNotGetProject"}]_vars

\* C17: an Add whose readme or clone step fails, after the directory was
\* created and the row inserted, rolls nothing back: the row and the
\* directory remain, Resolve of the name succeeds and another Add of the
\* name returns ProjectNameTaken.
C17_AuxFailureKeepsProject ==
    [][(Invoked("add") /\ last'.result = "IOError")
           => LET n == CleanName(last'.name)
              IN  /\ ~name_taken(n, rows) /\ ~PathExists(dirs, n)
                  /\ Len(rows') = Len(rows) + 1 /\ rows'[Len(rows')].name = n
                  /\ PathExists(dirs', n)
                  /\ get_project_path(n, rows') =
                         [result |-> "Ok", path |-> [root |-> Workspace, name |-> n]]
                  /\ \A t \in TagLists : \A c \in Option({"url"}) : \A rd \in BOOLEAN : \A g \in GitOutcomes :
                         add_project(last'.name, t, c, rd, g, rows', dirs') =
                             [result |-> "ProjectNameTaken", rows |-> rows', dirs |-> dirs']]_vars

\* git could not be spawned for the clone of a new project
C17_Witness ==
    /\ last.op = "add" /\ last.result = "IOError"
    /\ name_taken(CleanName(last.name), rows)
    /\ CleanName(last.name) \in DOMAIN dirs

\* C20: an Edit of project a with a new name whose cleaned form is the name
\* of another project b returns DatabaseError and leaves the table and
\* every directory as they were.
C20_EditNameCollision ==
    [][(/\ Invoked("edit") /\ last'.new_name.some
        /\ name_taken(last'.name, rows)
        /\ CleanName(last'.new_name.val) # last'.name
        /\ name_taken(CleanName(last'.new_name.val), rows))
           => /\ last'.result = "DatabaseError"
              /\ rows' = rows
              /\ dirs' = dirs]_vars

\* the new name had to be cleaned to collide, and the directory of the
\* other project is empty, so that a rename onto it could have succeeded
C20_Witness ==
    /\ last.op = "edit" /\ last.new_name.some /\ last.result = "DatabaseError"
    /\ CleanName(last.new_name.val) # last.new_name.val
    /\ name_taken(last.name, rows) /\ name_taken(CleanName(last.new_name.val), rows)
    /\ last.name \in DOMAIN dirs
    /\ CleanName(last.new_name.val) \in DOMAIN dirs
    /\ ~dirs[CleanName(last.new_name.val)]
    /\ platform = "unix"

\* C21: a name cannot be added again after its removal.  A Remove of n
\* that succeeds right after the successful Add of n leaves the directory
\* of n on disk and no row of n; and an Add of n right after a successful
\* Remove of n whose directory is on disk returns DirAlreadyExists and
\* leaves the catalog as it was, without a row of n.
C21_NoAddAfterRemove ==
    [][/\ (/\ last.op = "add" /\ last.result = "Ok"
           /\ Invoked("remove") /\ last'.result = "Ok"
           /\ last'.name = CleanName(last.name))
              => /\ PathExists(dirs', last'.name)
                 /\ last'.name \in DOMAIN dirs'
                 /\ ~name_taken(last'.name, rows')
       /\ (/\ last.op = "remove" /\ last.result = "Ok"
           /\ PathExists(dirs, last.name)
           /\ Invoked("add") /\ CleanName(last'.name) = last.name)
              => /\ last'.result = "DirAlreadyExists"
                 /\ rows' = rows
                 /\ dirs' = dirs
                 /\ ~name_taken(last.name, rows')]_vars

\* the third invocation of Add, Remove, Add of one name: the catalog is
\* empty, the directory of the first Add is on disk
C21_Witness ==
    /\ nops = 3
    /\ last.op = "add" /\ last.result = "DirAlreadyExists"
    /\ CleanName(last.name) = <<"a", "-", "a">>
    /\ rows = <<>>
    /\ DOMAIN dirs = {<<"a", "-", "a">>}

(***************************************************************************)
(* Properties of two invocations at once (SpecRace).                       *)
(***************************************************************************)
\* process p ran add_project to its end
AddDone(p) == pc[p] = "done" /\ loc[p].op = "add"

\* the number of rows with the name
RowCount(name) == Cardinality({i \in DOMAIN rows : rows[i].name = name})

\* both processes ran add_project with the same cleaned name
SameAdd(p, q) == p # q /\ AddDone(p) /\ AddDone(q) /\ loc[p].name = loc[q].name

\* C5 as claimed: when the directory was created and the INSERT then fails,
\* add_project removes the directory it created.
C5_AddRollsBackDirectory ==
    \A p \in Procs :
        (AddDone(p) /\ loc[p].result = "DatabaseError") => loc[p].name \notin DOMAIN dirs

\* C6 as claimed, for a name that was free (one invocation did insert it):
\* at most one invocation succeeds, the catalog ends with exactly one row
\* of the name, the loser returns ProjectNameTaken or DatabaseError.
C6_RaceLoserAsClaimed ==
    \A p \in Procs : \A q \in Procs :
        (SameAdd(p, q) /\ loc[p].inserted)
            => /\ ~(loc[p].result = "Ok" /\ loc[q].result = "Ok")
               /\ RowCount(loc[p].name) = 1
               /\ loc[q].result \in {"ProjectNameTaken", "DatabaseError"}

\* C6 amended: at most one of the two invocations inserts a row and
\* succeeds, the catalog never ends with two rows of the name and ends with
\* exactly one when an invocation inserted it, and an invocation that did
\* not insert returns ProjectNameTaken or DirAlreadyExists.
C6_RaceLoser ==
    \A p \in Procs : \A q \in Procs :
        SameAdd(p, q)
            => /\ ~(loc[p].inserted /\ loc[q].inserted)
               /\ ~(loc[p].result = "Ok" /\ loc[q].result = "Ok")
               /\ RowCount(loc[p].name) <= 1
               /\ loc[p].inserted => RowCount(loc[p].name) = 1
               /\ ~loc[q].inserted => loc[q].result \in {"ProjectNameTaken", "DirAlreadyExists"}

\* both passed the name_taken check, one created the directory and
\* inserted the row, the other found the directory
C6_Witness ==
    \E p \in Procs : \E q \in Procs :
        /\ SameAdd(p, q)
        /\ loc[p].result = "Ok" /\ loc[p].inserted
        /\ loc[q].result = "DirAlreadyExists"
        /\ RowCount(loc[p].name) = 1

(***************************************************************************)
(* The name cleaning alone (SpecNormalize): a name of up to MaxNameLen     *)
(* characters is cleaned by Project::new, and the stored name is cleaned   *)
(* again when it comes back as the new name of edit_name.                  *)
(***************************************************************************)
\* a letter, the blank, another whitespace character, the hyphen
NameChars == {"a", " ", "\t", "-"}

\* the strings over the characters of at most n characters
StringsUpTo(chars, n) == UNION {[1..k -> chars] : k \in 0..n}

InitNormalize ==
    /\ rows = <<>>
    /\ dirs = <<>>
    /\ platform = "unix"
    /\ nops = 0
    /\ pc = [p \in Procs |-> "idle"]
    /\ loc = [p \in Procs |-> NoLocals]
    /\ \E x \in StringsUpTo(NameChars, MaxNameLen) :
           last = [op |-> "typed", typed |-> x, name |-> x, out |-> <<>>]

\* Project::new on the name as typed
NormalizeNew ==
    /\ last.op = "typed"
    /\ last' = [last EXCEPT !.op = "new", !.out = ProjectNew(last.name, <<>>).name]
    /\ UNCHANGED <<rows, dirs, platform, nops, pc, loc>>

\* the cleaning of edit_name on the name Project::new gave
NormalizeEditName ==
    /\ last.op = "new"
    /\ last' = [last EXCEPT !.op = "edit_name", !.name = last.out, !.out = CleanName(last.out)]
    /\ UNCHANGED <<rows, dirs, platform, nops, pc, loc>>

NextNormalize == NormalizeNew \/ NormalizeEditName

SpecNormalize == InitNormalize /\ [][NextNormalize]_vars

\* C14: the name cleaning gives a string for every name, the cleaned name
\* has no space character, and cleaning a cleaned name gives it back.
C14_NormalizeIdempotent ==
    /\ last.op \in {"new", "edit_name"}
           => /\ last.out \in StringsUpTo(NameChars, Len(last.name))
              /\ \A k \in DOMAIN last.out : last.out[k] # " "
              /\ CleanName(last.out) = last.out
    /\ last.op = "edit_name" => last.out = last.name

\* a name with whitespace in front and a blank inside was cleaned twice
C14_Witness ==
    /\ last.op = "edit_name"
    /\ last.typed = <<"\t", "a", " ", "a">>
    /\ last.name = <<"a", "-", "a">>
    /\ last.out = <<"a", "-", "a">>

(***************************************************************************)
(* The tags of one project (SpecTags): the project is added with a tag     *)
(* list, edited at most once, and then loaded again by name or by a query  *)
(* without filters.  last keeps the tag list given to the command that     *)
(* stored the tags, the tags of the Project value in memory after edit,    *)
(* and the tags loaded.                                                    *)
(***************************************************************************)
\* a tag as typed: empty, plain, another plain one, one with a comma
TagValues == {<<>>, <<"x">>, <<"y">>, <<"x", ",", "y">>}

WideTagLists == StringsUpTo(TagValues, MaxTags)

\* the name of the project and the new names given to edit: the same name,
\* a name to clean, the empty name
TagsName == <<"a">>
TagsNewNames == {<<"a">>, <<"b", " ", "b">>, <<>>}

InitTags ==
    /\ rows = <<>>
    /\ dirs = <<>>
    /\ platform \in Platforms
    /\ nops = 0
    /\ pc = [p \in Procs |-> "idle"]
    /\ loc = [p \in Procs |-> NoLocals]
    /\ last = [op |-> "none", name |-> <<>>, new_name |-> None, given |-> None,
               tags |-> <<>>, mem |-> <<>>, out |-> <<>>, result |-> "Ok"]

\* add_project without --clone and --readme
TagsAdd(tags) ==
    LET r == add_project(TagsName, tags, None, FALSE, "exit_failure", rows, dirs)
    IN  /\ last.op = "none"
        /\ rows' = r.rows
        /\ dirs' = r.dirs
        /\ last' = [last EXCEPT !.op = "add", !.name = TagsName, !.given = Some(tags),
                                 !.tags = tags, !.result = r.result]
        /\ UNCHANGED <<platform, nops, pc, loc>>

\* edit of the project added
TagsEdit(new_name, new_tags) ==
    LET r == edit(last.name, new_name, new_tags, rows, dirs, platform)
    IN  /\ last.op = "add"
        /\ rows' = r.rows
        /\ dirs' = r.dirs
        /\ last' = [last EXCEPT !.op = "edit", !.new_name = new_name, !.given = new_tags,
                                 !.tags = IF new_tags.some /\ r.result = "Ok"
                                          THEN new_tags.val ELSE last.tags,
                                 !.mem = r.project.tags, !.result = r.result]
        /\ UNCHANGED <<platform, nops, pc, loc>>

\* Project::get_from_db_by_name of the project under the name it has now
TagsGet ==
    /\ last.op \in {"add", "edit"}
    /\ \E i \in DOMAIN rows :
           last' = [last EXCEPT !.op = "get",
                                !.out = get_from_db_by_name(rows[i].name, rows).project.tags]
    /\ UNCHANGED <<rows, dirs, platform, nops, pc, loc>>

\* print_list without filters
TagsList ==
    /\ last.op \in {"add", "edit"}
    /\ \E r \in fetch_from_db(None, None, rows) : \E i \in DOMAIN r.projects :
           last' = [last EXCEPT !.op = "list", !.out = r.projects[i].tags]
    /\ UNCHANGED <<rows, dirs, platform, nops, pc, loc>>

TagsAddCmd == \E tags \in WideTagLists : TagsAdd(tags)
TagsEditCmd ==
    \E new_name \in Option(TagsNewNames) : \E new_tags \in Option(WideTagLists) :
        TagsEdit(new_name, new_tags)

NextTags == TagsAddCmd \/ TagsEditCmd \/ TagsGet \/ TagsList

SpecTags == InitTags /\ [][NextTags]_vars

\* C13 as claimed: the tags that Add or Edit stored and that
\* get_from_db_by_name or a query loads again are the tag list given, in its
\* order and with its duplicates, without the empty strings; and the tag
\* field written holds no empty tag either.
C13_TagsRoundTrip ==
    /\ last.op \in {"get", "list"} => last.out = FilterEmpty(last.tags)
    /\ last.op \in {"add", "edit"} =>
           \A i \in DOMAIN rows : rows[i].tags = Join(FilterEmpty(last.tags))

\* C18 as claimed: after edit_tags succeeded, the tags in memory and the
\* tag field written hold no empty tag, and the tags in memory are the
\* tags that get_from_db_by_name loads.
C18_EditTagsFiltersEmpty ==
    (last.op = "edit" /\ last.given.some /\ last.result = "Ok")
        => /\ \A k \in DOMAIN last.mem : last.mem[k] # <<>>
           /\ \A i \in DOMAIN rows :
                  /\ rows[i].tags = Join(FilterEmpty(last.given.val))
                  /\ last.mem = get_from_db_by_name(rows[i].name, rows).project.tags

\* C19: an Edit with a new name and new tags that returns Ok leaves one
\* row of the project, named CleanName(new name) and holding the new tags
\* joined, and no row under the old name when the name changed: the UPDATE
\* of the tags matched the renamed row.
C19_RenameThenTags ==
    (last.op = "edit" /\ last.new_name.some /\ last.given.some /\ last.result = "Ok")
        => LET new == CleanName(last.new_name.val)
           IN  /\ Len(rows) = 1
               /\ rows[1] = [name |-> new, tags |-> Join(last.given.val)]
               /\ new # last.name => ~name_taken(last.name, rows)
               /\ PathExists(dirs, new)

\* the project a, added with the tag x, became b-b with the tags y and x
C19_Witness ==
    /\ last.op = "edit" /\ last.result = "Ok"
    /\ last.name = <<"a">>
    /\ last.new_name = Some(<<"b", " ", "b">>)
    /\ last.given = Some(<<<<"y">>, <<"x">>>>)
    /\ rows = <<[name |-> <<"b", "-", "b">>, tags |-> <<"y", ",", "x">>]>>

(***************************************************************************)
(* Listing the catalog (SpecQuery): projects are added, up to MaxRows of   *)
(* them, and the catalog is listed with and without filters.  last keeps   *)
(* the filters and the projects listed.                                    *)
(***************************************************************************)
\* names in both cases, two of them equal under NOCASE
QueryNames == {<<"a">>, <<"B">>, <<"b">>, <<"a", "B">>}

\* no tag, one tag, two tags
QueryTagLists == {<<>>, <<<<"x">>>>, <<<<"x">>, <<"y">>>>}

\* --name: a letter in the case of one name and not of another, a letter
\* in no name's case, two letters, and the characters LIKE reads as wildcards
NameQueries == Option({<<"b">>, <<"A">>, <<"a", "b">>, <<"_">>, <<"%">>})

\* --tag: a tag in the other case, a tag, the comma between two tags, and
\* the wildcard for one character
TagQueries == Option({<<"X">>, <<"y">>, <<",">>, <<"_">>})

NoList == [op |-> "none", name |-> <<>>, name_query |-> None, tag_query |-> None,
           result |-> "Ok", projects |-> <<>>]

InitQuery ==
    /\ rows = <<>>
    /\ dirs = <<>>
    /\ platform \in Platforms
    /\ nops = 0
    /\ pc = [p \in Procs |-> "idle"]
    /\ loc = [p \in Procs |-> NoLocals]
    /\ last = NoList

\* add_project without --clone and --readme
QueryAdd(name, tags) ==
    LET r == add_project(name, tags, None, FALSE, "exit_failure", rows, dirs)
    IN  /\ Len(rows) < MaxRows
        /\ rows' = r.rows
        /\ dirs' = r.dirs
        /\ last' = [NoList EXCEPT !.op = "add", !.name = name, !.result = r.result]
        /\ UNCHANGED <<platform, nops, pc, loc>>

\* print_list: the projects Project::fetch_from_db gives
QueryList(name_query, tag_query) ==
    /\ \E r \in fetch_from_db(name_query, tag_query, rows) :
           last' = [NoList EXCEPT !.op = "list", !.name_query = name_query,
                                  !.tag_query = tag_query, !.result = r.result,
                                  !.projects = r.projects]
    /\ UNCHANGED <<rows, dirs, platform, nops, pc, loc>>

QueryAddCmd == \E name \in QueryNames : \E tags \in QueryTagLists : QueryAdd(name, tags)
QueryListCmd == \E name_query \in NameQueries : \E tag_query \in TagQueries :
                    QueryList(name_query, tag_query)

NextQuery == QueryAddCmd \/ QueryListCmd

SpecQuery == InitQuery /\ [][NextQuery]_vars

\* text contains the query as a run of its characters
Contains(text, query) ==
    \E i \in 0..(Len(text) - Len(query)) :
        \A k \in 1..Len(query) : text[i + k] = query[k]

\* text contains the query when ASCII letters are compared without case
ContainsNoCase(text, query) ==
    \E i \in 0..(Len(text) - Len(query)) :
        \A k \in 1..Len(query) : ToLower(text[i + k]) = ToLower(query[k])

\* the query holds no character that LIKE reads as a wildcard
IsPlain(query) == \A k \in DOMAIN query : query[k] \notin {"%", "_"}

\* what a filter asks of a text: nothing when omitted; the text of a plain
\* filter without regard to case; one character for _, nothing for %
Admits(filter, text) ==
    \/ ~filter.some
    \/ IsPlain(filter.val) /\ ContainsNoCase(text, filter.val)
    \/ filter.val = <<"_">> /\ text # <<>>
    \/ filter.val = <<"%">>

\* the projects listed are the rows that keep(row) holds of, each once,
\* with the tags of its row
ListsExactly(keep(_)) ==
    /\ \A i \in DOMAIN rows :
           keep(rows[i]) <=> \E k \in DOMAIN last.projects :
                                last.projects[k] = [name |-> rows[i].name,
                                                    tags |-> ParseTags(rows[i].tags)]
    /\ \A k \in DOMAIN last.projects : \A m \in DOMAIN last.projects :
           last.projects[k].name = last.projects[m].name => k = m
    /\ \A k \in DOMAIN last.projects : name_taken(last.projects[k].name, rows)

\* C15 as claimed: a listing gives exactly the projects whose name contains
\* the name filter and whose tag field contains the tag filter, as literal
\* substrings compared with case.
C15_FilterCaseSensitive ==
    last.op = "list"
        => ListsExactly(LAMBDA row :
               /\ last.name_query.some => Contains(row.name, last.name_query.val)
               /\ last.tag_query.some => Contains(row.tags, last.tag_query.val))

\* C15 amended: a listing gives exactly the projects whose name contains
\* the name filter and whose tag field contains the tag filter as a
\* substring compared without regard to ASCII case, where a filter _
\* stands for any one character and a filter % for anything; an omitted
\* filter constrains nothing and no such project is left out.
C15_FilterNoCase ==
    last.op = "list"
        => /\ \A f \in {last.name_query, last.tag_query} :
                  f.some => (IsPlain(f.val) \/ f.val \in {<<"_">>, <<"%">>})
           /\ ListsExactly(LAMBDA row :
                  /\ Admits(last.name_query, row.name)
                  /\ Admits(last.tag_query, row.tags))

\* the name filter b lists B, whose letter is in the other case, and
\* leaves a out; the tag filter is the comma between the tags of B
C15_Witness ==
    /\ last.op = "list" /\ last.name_query = Some(<<"b">>) /\ last.tag_query = Some(<<",">>)
    /\ Len(rows) = 2
    /\ name_taken(<<"a">>, rows)
    /\ last.projects = <<[name |-> <<"B">>, tags |-> <<<<"x">>, <<"y">>>>]>>

\* a name with its ASCII letters in lower case
Fold(name) == [i \in DOMAIN name |-> ToLower(name[i])]

\* C16: a listing never fails; whatever the filters, the projects listed
\* are in ascending order of their names compared without case; without
\* filters every project of the catalog is listed exactly once, and an
\* empty catalog or a filter that nothing matches gives the empty list.
C16_ListOrdered ==
    last.op = "list"
        => /\ last.result = "Ok"
           /\ \A k \in DOMAIN last.projects : \A m \in DOMAIN last.projects :
                  k < m => LexLeq(Fold(last.projects[k].name), Fold(last.projects[m].name))
           /\ (~last.name_query.some /\ ~last.tag_query.some)
                  => /\ Len(last.projects) = Len(rows)
                     /\ \A i \in DOMAIN rows : \E k \in DOMAIN last.projects :
                            last.projects[k].name = rows[i].name
           /\ Len(last.projects) <= Len(rows)

\* B and a were added in this order and are listed as a, B
C16_Witness ==
    /\ last.op = "list" /\ ~last.name_query.some /\ ~last.tag_query.some
    /\ Len(rows) = 2
    /\ rows[1].name = <<"B">> /\ rows[2].name = <<"a">>
    /\ Len(last.projects) = 2
    /\ last.projects[1].name = <<"a">>
    /\ last.projects[2].name = <<"B">>

====
